---- MODULE Spec2Model ----
(***************************************************************************)
(* RetroTV: virtual-channel scheduling and playback sequencing.            *)
(*                                                                         *)
(* The model follows server_29.py (the networked control panel): one       *)
(* auto_mode_loop thread and the Flask request handlers share the module   *)
(* globals current_channel, auto_mode, auto_interval and                   *)
(* global_channel_queue, and all of them talk to the same mpv IPC socket.  *)
(* The code takes no lock anywhere, so every read or write of a global and *)
(* every command sent to the player is a step of its own; the sleeps of a  *)
(* sequence are the points between two steps.                              *)
(* Durations and offsets are floats in the code and naturals here.         *)
(***************************************************************************)
EXTENDS Naturals, Integers, Sequences, FiniteSets, TLC

\* ------------------------------------------------------------------ bounds
MaxInterval == 2      \* rotation intervals 1..MaxInterval are exercised
MaxElapsed  == 3      \* seconds since midnight read by the resolver: 0..MaxElapsed
MaxLen      == 3      \* a resolved channel has up to MaxLen items
MaxDuration == 2      \* each of them lasts 0..MaxDuration seconds
MaxClock    == 7      \* and is resolved at the instants 0..MaxClock
MaxMtime    == 2      \* a media file is modified up to MaxMtime - 1 times

\* --------------------------------------------------------------- constants
None    == "None"                 \* Python's None
Sched   == "sched"                \* the auto_mode_loop thread
Handlers == {"h1", "h2"}          \* request-handler threads of the Flask server
Terminal == "term"                \* the terminal_input_thread of retro_23.py
Threads == {Sched, Terminal} \cup Handlers
NoThread == "nobody"

TRANSITION_VIDEO == "transition.mp4"

\* The channel folders of the media directory: three channels, one of them empty.
channels == {"ch1", "ch2", "ch3"}


Unknown == "zzz"                  \* a channel name that is not in the catalog
\* what a POST /switch_channel body can carry in "channel"
SwitchInputs == channels \cup {Unknown, None, ""}
ModeInputs == {"global", "local", "off", "bogus"}
\* what a POST /set_auto_interval body can carry in "interval", as
\* <<JSON type, value>>: integers, numbers with a fractional part (in tenths:
\* 15 is 1.5), strings (as their characters) and null
IntervalInputs ==
    {<<"int", n>> : n \in -1 .. MaxInterval}
    \cup {<<"float", 5>>, <<"float", 15>>}
    \cup {<<"str", <<"2">> >>, <<"str", <<"a", "b", "c">> >>}
    \cup {<<"null", 0>>}
NoData == <<"none", 0>>              \* no request body at hand

VARIABLES
    current_channel,        \* server_29.py:136
    auto_mode,              \* server_29.py:225
    auto_interval,          \* server_29.py:228
    global_channel_queue,   \* server_29.py:231
    transition_present,     \* os.path.exists(TRANSITION_VIDEO)
    mpv_socket,             \* whether /tmp/mpv-socket accepts connections
    mpv,                    \* the player behind /tmp/mpv-socket
    pc,                     \* position of every thread
    channel,                \* parameter `channel` of play_transition_then_load / channel read at line 192
    video,                  \* local `video` / `chosen_video` of the running sequence
    random_offset,          \* local `random_offset` of the running sequence
    issued,                 \* history: the commands the running sequence of each thread has handed to send_mpv_command
    countdown,              \* local `countdown` of auto_mode_loop
    visited,                \* history: the set of channels drawn since the last refill of the queue
    draws,                  \* history: how many draws were made since the last refill
    lastDraw,               \* history: the channel drawn last
    ticksOwed,              \* history: ticks still missing to a full interval since rotation was last freshly enabled
    data,                   \* `data` of set_auto_mode / set_auto_interval: the field read from request.get_json()
    catalog,                \* keys of `channels` (server_29.py:21-30): the channel folders found at start-up
    ch_durations,           \* `durations` of the channel handed to the resolver (server_29.py:119)
    now,                    \* get_seconds_since_midnight() at the call of the resolver (server_29.py:125)
    resolved,               \* what the resolver returned for ch_durations at `now`; <<>> before the call
    earlier,                \* history: <<instant, result>> of the call before, <<>> when there was none
    mod_time,               \* os.path.getmtime of every media file
    durations_cache,        \* server_29.py:59
    cache_file,             \* durations_cache.json on disk (CACHE_FILE, server_29.py:39)
    boot,                   \* position of the main thread during start-up (lines 59-105)
    pending,                \* files of the folder cached_get_video_duration was not yet called on in this run
    last_call,              \* history: the last call of cached_get_video_duration: file, whether it probed, whether the probe failed, result
    previous,               \* history: the snapshot on disk when this run began
    files,                  \* `files` of init_playlists after the shuffle, which is channel_playlists[ch] (lines 94-96)
    completed,              \* history: <<file, result>> of the pool's calls, in the order they completed
    folder_durations,       \* channel_durations[ch] as line 99 assigns it; <<>> before
    playing                 \* history: the item the resolver reports for the live channel at the instant next_video chooses

vars == <<current_channel, auto_mode, auto_interval, global_channel_queue,
          transition_present, mpv_socket, catalog, data, issued,
          ch_durations, now, resolved, earlier, playing,
          mod_time, durations_cache, cache_file, boot, pending, last_call, previous,
          files, completed, folder_durations, mpv, pc, channel, video, random_offset,
          countdown, visited, draws, lastDraw, ticksOwed>>

shared == <<current_channel, auto_mode, auto_interval>>
world == <<transition_present, mpv_socket, catalog>>
resolver == <<ch_durations, now, resolved, earlier>>
scan == <<files, completed, folder_durations>>
store == <<mod_time, durations_cache, cache_file, boot, pending, last_call, previous, scan>>
others == <<resolver, playing, store>>      \* what only the specifications further down move
env == <<world, data, others>>
engine == <<current_channel, auto_mode, auto_interval, global_channel_queue,
            mpv, pc, channel, video, random_offset, issued, countdown,
            visited, draws, lastDraw, ticksOwed, world, data, playing>>
frame == <<channel, video, random_offset>>
locals == <<frame, issued>>
rotation == <<visited, draws, lastDraw>>
history == <<rotation, ticksOwed>>

\* channel_playlists and channel_durations as init_playlists leaves them
channel_playlists == [c \in catalog |->
    CASE c = "ch1" -> <<"a", "b">>
      [] c = "ch2" -> <<"c">>
      [] OTHER     -> <<>>]
channel_durations == [c \in catalog |->
    CASE c = "ch1" -> <<2, 1>>
      [] c = "ch2" -> <<1>>
      [] OTHER     -> <<>>]

\* the media files of one channel folder and what ffprobe reports for them
Files == {"a", "b"}
ffprobe == ("a" :> 2) @@ ("b" :> 1)

\* durations_cache.json: absent, a complete JSON document, or what is left of
\* one that was opened for writing and not finished
Snapshot(state, content) == [state |-> state, content |-> content]
NoCall == [file |-> None, probed |-> FALSE, failed |-> FALSE, result |-> 0]

\* the server is up: start-up is over and the store is at rest
Warm ==
    /\ mod_time = [f \in Files |-> 1]
    /\ durations_cache = [f \in Files |-> [mod_time |-> 1, duration |-> ffprobe[f]]]
    /\ cache_file = Snapshot("complete", durations_cache)
    /\ previous = cache_file
    /\ boot = "serving"
    /\ pending = {}
    /\ last_call = NoCall
    /\ files = <<"a", "b">>
    /\ completed = << <<"a", ffprobe["a"]>>, <<"b", ffprobe["b"]>> >>
    /\ folder_durations = <<ffprobe["a"], ffprobe["b"]>>

\* ------------------------------------------------------------ pure helpers
RECURSIVE sum(_)
sum(s) == IF s = <<>> THEN 0 ELSE Head(s) + sum(Tail(s))

Min(a, b) == IF a < b THEN a ELSE b

\* the value of a decimal digit
DigitVal == ("0" :> 0) @@ ("1" :> 1) @@ ("2" :> 2) @@ ("3" :> 3) @@ ("4" :> 4)
            @@ ("5" :> 5) @@ ("6" :> 6) @@ ("7" :> 7) @@ ("8" :> 8) @@ ("9" :> 9)

\* the number a string of decimal digits denotes
RECURSIVE DigitsVal(_)
DigitsVal(cs) ==
    IF cs = <<>> THEN 0
    ELSE 10 * DigitsVal(SubSeq(cs, 1, Len(cs) - 1)) + DigitVal[cs[Len(cs)]]

\* Python's int(x) on a JSON value: <<TRUE, n>>, or <<FALSE, 0>> when it raises.
\* A float is truncated towards zero, a string must be a decimal literal,
\* None raises TypeError.
py_int(x) ==
    CASE x[1] = "int"   -> <<TRUE, x[2]>>
      [] x[1] = "float" -> <<TRUE, IF x[2] >= 0 THEN x[2] \div 10 ELSE -((-x[2]) \div 10)>>
      [] x[1] = "str"   -> IF x[2] # <<>> /\ \A i \in 1 .. Len(x[2]) : x[2][i] \in DOMAIN DigitVal
                           THEN <<TRUE, DigitsVal(x[2])>>
                           ELSE <<FALSE, 0>>
      [] OTHER          -> <<FALSE, 0>>

\* dict.get(key, [])
get(d, k) == IF k \in DOMAIN d THEN d[k] ELSE <<>>

\* the for loop with >= in the place of > at line 130
RECURSIVE walk_inclusive(_, _, _, _, _)
walk_inclusive(playlist, durations, i, cumulative, channel_pos) ==
    IF i > Min(Len(playlist), Len(durations))
    THEN <<playlist[Len(playlist)], 0>>
    ELSE IF cumulative + durations[i] >= channel_pos
         THEN <<playlist[i], channel_pos - cumulative>>
         ELSE walk_inclusive(playlist, durations, i + 1, cumulative + durations[i], channel_pos)

\* the for loop of compute_current_video_and_offset over zip(playlist, durations)
RECURSIVE walk(_, _, _, _, _)
walk(playlist, durations, i, cumulative, channel_pos) ==
    IF i > Min(Len(playlist), Len(durations))
    THEN <<playlist[Len(playlist)], 0>>
    ELSE IF cumulative + durations[i] > channel_pos
         THEN <<playlist[i], channel_pos - cumulative>>
         ELSE walk(playlist, durations, i + 1, cumulative + durations[i], channel_pos)

\* line 126 without the modulo
channel_pos_unwrapped(elapsed, total_duration) == elapsed

\* line 126: channel_pos = elapsed % total_duration
channel_pos(elapsed, total_duration) == elapsed % total_duration

\* lines 120-133 with the last item returned for a channel of total duration 0
compute_last_on_zero(playlist, durations, elapsed) ==
    LET total_duration == sum(durations)
    IN  IF playlist = <<>> \/ durations = <<>> THEN <<None, None>>
        ELSE IF total_duration = 0 THEN <<playlist[Len(playlist)], 0>>
        ELSE walk(playlist, durations, 1, 0, channel_pos(elapsed, total_duration))

\* lines 120-133 of compute_current_video_and_offset on the two lists of a channel
compute(playlist, durations, elapsed) ==
    LET total_duration == sum(durations)
    IN  IF playlist = <<>> \/ durations = <<>> THEN <<None, None>>
        ELSE IF total_duration = 0 THEN <<playlist[1], 0>>
        ELSE walk(playlist, durations, 1, 0, channel_pos(elapsed, total_duration))

\* (video, offset) for a channel name, `elapsed` being get_seconds_since_midnight()
compute_current_video_and_offset(ch, elapsed) ==
    compute(get(channel_playlists, ch), get(channel_durations, ch), elapsed)

\* the duration get_video_duration can report for a file: the probed one, or 0 on failure
RECURSIVE durationOf(_, _, _)
durationOf(playlist, durations, v) ==
    IF playlist = <<>> \/ durations = <<>> THEN 0
    ELSE IF Head(playlist) = v THEN Head(durations)
    ELSE durationOf(Tail(playlist), Tail(durations), v)

get_video_duration(ch, v) ==
    {0, durationOf(get(channel_playlists, ch), get(channel_durations, ch), v)}

\* random.uniform(0, duration * 0.8) if duration > 0 else 0
random_offsets(duration) ==
    IF duration > 0 THEN 0 .. ((duration * 8) \div 10) ELSE {0}

\* ----------------------------------------------------------------- player
\* what mpv does with one command it receives from thread t
Player(m, cmd, t) ==
    IF cmd[1] = "loadfile"
    THEN [file |-> cmd[2], by |-> t, pos |-> None]
    ELSE [m EXCEPT !.pos = cmd[3]]

\* send_mpv_command: the command reaches the player, or the exception is swallowed
send_mpv_command(cmd, t) ==
    \E ok \in (IF mpv_socket THEN BOOLEAN ELSE {FALSE}) :
        mpv' = IF ok THEN Player(mpv, cmd, t) ELSE mpv

\* where a thread continues when its playback sequence returns: the rotation
\* loop at its top, a handler at the return of its status 200
Return(t) ==
    /\ pc' = [pc EXCEPT ![t] = IF t = Sched THEN "L249" ELSE "ret200"]
    /\ channel' = [channel EXCEPT ![t] = None]
    /\ video' = [video EXCEPT ![t] = None]
    /\ random_offset' = [random_offset EXCEPT ![t] = 0]
    /\ issued' = [issued EXCEPT ![t] = <<>>]

Goto(t, l) == pc' = [pc EXCEPT ![t] = l]

\* thread t hands cmd to send_mpv_command, whatever becomes of it
Issue(cmd, t) ==
    /\ send_mpv_command(cmd, t)
    /\ issued' = [issued EXCEPT ![t] = Append(@, cmd)]

\* ------------------------------------------------------------------- Init
Init ==
    /\ current_channel = None
    /\ auto_mode = None
    /\ auto_interval \in 1 .. MaxInterval
    /\ global_channel_queue = <<>>
    /\ transition_present = TRUE
    /\ mpv_socket = FALSE
    /\ catalog = channels
    /\ data = [t \in Threads |-> NoData]
    /\ ch_durations = <<>> /\ now = 0 /\ resolved = <<>> /\ earlier = <<>>
    /\ playing = None
    /\ Warm
    /\ mpv = [file |-> None, by |-> NoThread, pos |-> None]
    /\ pc = [t \in Threads |-> IF t = Sched THEN "L249" ELSE "idle"]
    /\ channel = [t \in Threads |-> None]
    /\ video = [t \in Threads |-> None]
    /\ random_offset = [t \in Threads |-> 0]
    /\ issued = [t \in Threads |-> <<>>]
    /\ countdown = 0
    /\ visited = {}
    /\ draws = 0
    /\ lastDraw = None
    /\ ticksOwed = 0

\* ------------------------------------------- play_transition_then_load(channel)
\* line 158: current_channel = channel
ptl_158(t) ==
    /\ pc[t] = "ptl158"
    /\ current_channel' = channel[t]
    /\ Goto(t, "ptl159")
    /\ UNCHANGED <<auto_mode, auto_interval, global_channel_queue, env,
                   mpv, locals, countdown, history>>

\* lines 159-165 without the test for the bumper file
ptl_159_unconditional(t) ==
    /\ pc[t] = "ptl159"
    /\ Issue(<<"loadfile", TRANSITION_VIDEO>>, t)
    /\ Goto(t, "ptl166")
    /\ UNCHANGED <<shared, global_channel_queue, env,
                   frame, countdown, history>>

\* lines 159-165: the bumper, when the file exists
ptl_159(t) ==
    /\ pc[t] = "ptl159"
    /\ IF transition_present
       THEN Issue(<<"loadfile", TRANSITION_VIDEO>>, t)
       ELSE UNCHANGED <<mpv, issued>>
    /\ Goto(t, "ptl166")
    /\ UNCHANGED <<shared, global_channel_queue, env,
                   frame, countdown, history>>

\* lines 166-174: resolve the target; return when the channel has no video
ptl_166(t) ==
    /\ pc[t] = "ptl166"
    /\ \E elapsed \in 0 .. MaxElapsed :
         LET v == compute_current_video_and_offset(channel[t], elapsed)[1]
         IN  IF v = None
             THEN Return(t)
             ELSE /\ \E d \in get_video_duration(channel[t], v) :
                     \E o \in random_offsets(d) :
                        random_offset' = [random_offset EXCEPT ![t] = o]
                  /\ video' = [video EXCEPT ![t] = v]
                  /\ Goto(t, "ptl178")
                  /\ UNCHANGED <<channel, issued>>
    /\ UNCHANGED <<shared, global_channel_queue, env, mpv,
                   countdown, history>>

\* lines 177-179: loadfile of the target
ptl_178(t) ==
    /\ pc[t] = "ptl178"
    /\ Issue(<<"loadfile", video[t]>>, t)
    /\ Goto(t, "ptl181")
    /\ UNCHANGED <<shared, global_channel_queue, env,
                   frame, countdown, history>>

\* lines 180-181: the seek, then the function returns
ptl_181(t) ==
    /\ pc[t] = "ptl181"
    /\ send_mpv_command(<<"set_property", "time-pos", random_offset[t]>>, t)
    /\ Return(t)
    /\ UNCHANGED <<shared, global_channel_queue, env,
                   countdown, history>>

\* --------------------------------------------- play_transition_then_next()
\* lines 189-191 without the test for a current channel
ptn_189_unguarded(t) ==
    /\ pc[t] = "ptn189"
    /\ Goto(t, "ptn192")
    /\ UNCHANGED locals
    /\ UNCHANGED <<shared, global_channel_queue, env, mpv, countdown, history>>

\* lines 189-191: nothing to do without a current channel
ptn_189(t) ==
    /\ pc[t] = "ptn189"
    /\ IF current_channel = None
       THEN Return(t)
       ELSE /\ Goto(t, "ptn192")
            /\ UNCHANGED locals
    /\ UNCHANGED <<shared, global_channel_queue, env, mpv, countdown, history>>

\* lines 192-195: the playlist of the channel that is current now
ptn_192(t) ==
    /\ pc[t] = "ptn192"
    /\ IF get(channel_playlists, current_channel) = <<>>
       THEN Return(t)
       ELSE /\ channel' = [channel EXCEPT ![t] = current_channel]
            /\ Goto(t, "ptn197")
            /\ UNCHANGED <<video, random_offset, issued>>
    /\ UNCHANGED <<shared, global_channel_queue, env, mpv, countdown, history>>

\* lines 198-202: the videos random.choice may return
chosen_videos(playlist, current_video) ==
    IF Len(playlist) > 1
    THEN LET possible_videos ==
                 {playlist[i] : i \in {j \in 1 .. Len(playlist) : playlist[j] # current_video}}
         IN  IF possible_videos # {} THEN possible_videos ELSE {current_video}
    ELSE {playlist[1]}

\* lines 197-207: resolve what is playing on the channel that is current now,
\* choose another video of the playlist read at line 192, draw its offset
ptn_197(t) ==
    /\ pc[t] = "ptn197"
    /\ \E elapsed \in 0 .. MaxElapsed :
         LET current_video == compute_current_video_and_offset(current_channel, elapsed)[1]
         IN  \E v \in chosen_videos(channel_playlists[channel[t]], current_video) :
             \E d \in get_video_duration(channel[t], v) :
             \E o \in random_offsets(d) :
                /\ video' = [video EXCEPT ![t] = v]
                /\ random_offset' = [random_offset EXCEPT ![t] = o]
    /\ Goto(t, "ptn210")
    /\ UNCHANGED <<shared, global_channel_queue, env, mpv, channel, issued,
                   countdown, history>>

\* lines 210-214: the bumper, when the file exists
ptn_210(t) ==
    /\ pc[t] = "ptn210"
    /\ IF transition_present
       THEN Issue(<<"loadfile", TRANSITION_VIDEO>>, t)
       ELSE UNCHANGED <<mpv, issued>>
    /\ Goto(t, "ptn216")
    /\ UNCHANGED <<shared, global_channel_queue, env,
                   frame, countdown, history>>

\* lines 215-217: loadfile of the chosen video
ptn_216(t) ==
    /\ pc[t] = "ptn216"
    /\ Issue(<<"loadfile", video[t]>>, t)
    /\ Goto(t, "ptn219")
    /\ UNCHANGED <<shared, global_channel_queue, env,
                   frame, countdown, history>>

\* lines 218-219: the seek, then the function returns
ptn_219(t) ==
    /\ pc[t] = "ptn219"
    /\ send_mpv_command(<<"set_property", "time-pos", random_offset[t]>>, t)
    /\ Return(t)
    /\ UNCHANGED <<shared, global_channel_queue, env, countdown, history>>

\* ------------------------------------------------------------- front ends
\* POST /switch_channel taking the selected channel out of the rotation queue
web_switch_channel_dequeues(h) ==
    /\ pc[h] = "idle"
    /\ \E ch \in SwitchInputs :
         IF ch = None \/ ch = ""
         THEN /\ Goto(h, "ret400")
              /\ UNCHANGED <<channel, global_channel_queue>>
         ELSE /\ channel' = [channel EXCEPT ![h] = ch]
              /\ global_channel_queue' =
                    SelectSeq(global_channel_queue, LAMBDA c : c # ch)
              /\ Goto(h, "ptl158")
    /\ UNCHANGED <<shared, env, mpv,
                   video, random_offset, issued, countdown, history>>

\* POST /switch_channel
web_switch_channel(h) ==
    /\ pc[h] = "idle"
    /\ \E ch \in SwitchInputs :
         IF ch = None \/ ch = ""
         THEN /\ Goto(h, "ret400")
              /\ UNCHANGED channel
         ELSE /\ channel' = [channel EXCEPT ![h] = ch]
              /\ Goto(h, "ptl158")
    /\ UNCHANGED <<shared, global_channel_queue, env, mpv,
                   video, random_offset, issued, countdown, history>>

\* POST /next_video
web_next_video(h) ==
    /\ pc[h] = "idle"
    /\ Goto(h, "ptn189")
    /\ UNCHANGED <<shared, global_channel_queue, env, mpv,
                   locals, countdown, history>>

\* POST /set_auto_mode
set_auto_mode(h) ==
    /\ pc[h] = "idle"
    /\ \E mode \in ModeInputs :
         /\ IF mode \in {"global", "local"}
            THEN /\ auto_mode' = mode
                 /\ Goto(h, "ret200")
                 /\ ticksOwed' = IF auto_mode = None THEN auto_interval ELSE ticksOwed
            ELSE IF mode = "off"
            THEN /\ auto_mode' = None
                 /\ Goto(h, "ret200")
                 /\ ticksOwed' = 0
            ELSE /\ Goto(h, "ret400")
                 /\ UNCHANGED <<auto_mode, ticksOwed>>
         /\ data' = [data EXCEPT ![h] = <<"mode", mode>>]
    /\ UNCHANGED <<current_channel, auto_interval, global_channel_queue, world, others, mpv,
                   locals, countdown, rotation>>

\* POST /set_auto_interval
set_auto_interval(h) ==
    /\ pc[h] = "idle"
    /\ \E raw \in IntervalInputs :
         LET interval == py_int(raw)
         IN  /\ IF ~interval[1] \/ interval[2] <= 0
                THEN /\ Goto(h, "ret400")
                     /\ UNCHANGED auto_interval
                ELSE /\ auto_interval' = interval[2]
                     /\ Goto(h, "ret200")
             /\ data' = [data EXCEPT ![h] = raw]
    /\ UNCHANGED <<current_channel, auto_mode, global_channel_queue, world, others, mpv,
                   locals, countdown, history>>

\* the return of a handler: jsonify({...}) with status 200, or the error with status 400
respond(h) ==
    /\ pc[h] \in {"ret200", "ret400"}
    /\ Goto(h, "idle")
    /\ data' = [data EXCEPT ![h] = NoData]
    /\ UNCHANGED <<shared, global_channel_queue, world, others, mpv, locals, countdown, history>>

\* ---------------------------------------------------------- rotation queue
\* a refill that samples with replacement instead of shuffling
shuffles_with_replacement(S) == [1 .. Cardinality(S) -> S]

\* the orders random.shuffle can leave list(channels.keys()) in
shuffles(S) ==
    {q \in [1 .. Cardinality(S) -> S] : \A i, j \in 1 .. Cardinality(S) : q[i] = q[j] => i = j}

\* a draw that reads the head of the queue and leaves it there
get_next_random_channel_peek(queue, shuffled) ==
    LET filled == IF queue = <<>> THEN shuffled ELSE queue
    IN  <<Head(filled), filled>>

\* get_next_random_channel: <<channel returned, queue left>>, `shuffled` being
\* the order the refill would produce
get_next_random_channel(queue, shuffled) ==
    LET filled == IF queue = <<>> THEN shuffled ELSE queue
    IN  <<Head(filled), Tail(filled)>>

\* an activation that draws a channel and calls play_transition_then_load on it.
\* With no channel folder the refill leaves the queue empty and pop(0) raises
\* IndexError; auto_mode_loop catches nothing, so its thread ends there.
DrawAndSwitch ==
    \E shuffled \in shuffles(catalog) :
       IF global_channel_queue = <<>> /\ shuffled = <<>>
       THEN /\ Goto(Sched, "IndexError")
            /\ UNCHANGED <<global_channel_queue, channel, rotation>>
       ELSE LET r == get_next_random_channel(global_channel_queue, shuffled)
                refill == global_channel_queue = <<>>
            IN  /\ global_channel_queue' = r[2]
                /\ channel' = [channel EXCEPT ![Sched] = r[1]]
                /\ visited' = IF refill THEN {r[1]} ELSE visited \cup {r[1]}
                /\ draws' = IF refill THEN 1 ELSE draws + 1
                /\ lastDraw' = r[1]
                /\ Goto(Sched, "ptl158")

\* --------------------------------------------------------- auto_mode_loop
\* line 249: if auto_mode is not None
Sched_249 ==
    /\ pc[Sched] = "L249"
    /\ Goto(Sched, IF auto_mode # None THEN "L250" ELSE "L270")
    /\ UNCHANGED <<shared, global_channel_queue, env, mpv, locals,
                   countdown, history>>

\* line 250: countdown = auto_interval
Sched_250 ==
    /\ pc[Sched] = "L250"
    /\ countdown' = auto_interval
    /\ ticksOwed' = auto_interval
    /\ Goto(Sched, "L251")
    /\ UNCHANGED <<shared, global_channel_queue, env, mpv, locals,
                   rotation>>

\* line 251: while countdown > 0 and auto_mode is not None
Sched_251 ==
    /\ pc[Sched] = "L251"
    /\ Goto(Sched, IF countdown > 0 /\ auto_mode # None THEN "L253" ELSE "L255")
    /\ UNCHANGED <<shared, global_channel_queue, env, mpv, locals,
                   countdown, history>>

\* lines 253-254: one second passes, countdown -= 1
Sched_253 ==
    /\ pc[Sched] = "L253"
    /\ countdown' = countdown - 1
    /\ ticksOwed' = IF ticksOwed > 0 THEN ticksOwed - 1 ELSE 0
    /\ Goto(Sched, "L251")
    /\ UNCHANGED <<shared, global_channel_queue, env, mpv, locals,
                   rotation>>

\* lines 255-256: if auto_mode is None: continue
Sched_255 ==
    /\ pc[Sched] = "L255"
    /\ Goto(Sched, IF auto_mode = None THEN "L249" ELSE "L257")
    /\ UNCHANGED <<shared, global_channel_queue, env, mpv, locals,
                   countdown, history>>

\* line 257 with every mode other than "local" taken for "global"
Sched_257_else ==
    /\ pc[Sched] = "L257"
    /\ Goto(Sched, IF auto_mode # "local" THEN "L258" ELSE "L261")
    /\ UNCHANGED <<shared, global_channel_queue, env, mpv, locals,
                   countdown, history>>

\* line 257: if auto_mode == "global"
Sched_257 ==
    /\ pc[Sched] = "L257"
    /\ Goto(Sched, IF auto_mode = "global" THEN "L258" ELSE "L261")
    /\ UNCHANGED <<shared, global_channel_queue, env, mpv, locals,
                   countdown, history>>

\* lines 258-260: draw the next channel and switch to it
Sched_258 ==
    /\ pc[Sched] = "L258"
    /\ DrawAndSwitch
    /\ UNCHANGED <<shared, env, mpv, video, random_offset, issued, countdown,
                   ticksOwed>>

\* line 261: elif auto_mode == "local"
Sched_261 ==
    /\ pc[Sched] = "L261"
    /\ Goto(Sched, IF auto_mode = "local" THEN "L262" ELSE "L249")
    /\ UNCHANGED <<shared, global_channel_queue, env, mpv, locals,
                   countdown, history>>

\* line 262 with the test inverted
Sched_262_inverted ==
    /\ pc[Sched] = "L262"
    /\ Goto(Sched, IF current_channel # None THEN "L263" ELSE "ptn189")
    /\ UNCHANGED <<shared, global_channel_queue, env, mpv, locals,
                   countdown, history>>

\* line 262: if current_channel is None; lines 266-268 call play_transition_then_next
Sched_262 ==
    /\ pc[Sched] = "L262"
    /\ Goto(Sched, IF current_channel = None THEN "L263" ELSE "ptn189")
    /\ UNCHANGED <<shared, global_channel_queue, env, mpv, locals,
                   countdown, history>>

\* lines 263-265: no current channel: draw one and switch to it
Sched_263 ==
    /\ pc[Sched] = "L263"
    /\ DrawAndSwitch
    /\ UNCHANGED <<shared, env, mpv, video, random_offset, issued, countdown,
                   ticksOwed>>

\* line 270: time.sleep(1) while rotation is off
Sched_270 ==
    /\ pc[Sched] = "L270"
    /\ Goto(Sched, "L249")
    /\ UNCHANGED <<shared, global_channel_queue, env, mpv, locals,
                   countdown, history>>

\* ------------------------------------------------------------ specification
\* a step of the playback sequence thread t is in
Sequence(t) ==
    \/ ptl_158(t) \/ ptl_159(t) \/ ptl_166(t) \/ ptl_178(t) \/ ptl_181(t)
    \/ ptn_189(t) \/ ptn_192(t) \/ ptn_197(t) \/ ptn_210(t) \/ ptn_216(t) \/ ptn_219(t)

\* a request taken by handler h
Request(h) ==
    \/ web_switch_channel(h) \/ web_next_video(h)
    \/ set_auto_mode(h) \/ set_auto_interval(h)
    \/ respond(h)

auto_mode_loop ==
    \/ Sched_249 \/ Sched_250 \/ Sched_251 \/ Sched_253 \/ Sched_255 \/ Sched_257
    \/ Sched_258 \/ Sched_261 \/ Sched_262 \/ Sched_263 \/ Sched_270
    \/ Sequence(Sched)

\* The rotation thread and one request handler; nothing listens on the socket.
Next ==
    \/ auto_mode_loop
    \/ Request("h1")
    \/ Sequence("h1")

Spec == Init /\ [][Next]_vars

\* Two request handlers in front of a running player; rotation stays off.
InitWeb ==
    /\ current_channel = None
    /\ auto_mode = None
    /\ auto_interval \in 1 .. MaxInterval
    /\ global_channel_queue = <<>>
    /\ transition_present \in BOOLEAN
    /\ mpv_socket = TRUE
    /\ catalog = channels
    /\ data = [t \in Threads |-> NoData]
    /\ ch_durations = <<>> /\ now = 0 /\ resolved = <<>> /\ earlier = <<>>
    /\ playing = None
    /\ Warm
    /\ mpv = [file |-> None, by |-> NoThread, pos |-> None]
    /\ pc = [t \in Threads |-> IF t = Sched THEN "L249" ELSE "idle"]
    /\ channel = [t \in Threads |-> None]
    /\ video = [t \in Threads |-> None]
    /\ random_offset = [t \in Threads |-> 0]
    /\ issued = [t \in Threads |-> <<>>]
    /\ countdown = 0
    /\ visited = {}
    /\ draws = 0
    /\ lastDraw = None
    /\ ticksOwed = 0

NextWeb ==
    \/ \E h \in Handlers : web_switch_channel(h)
    \/ \E h \in Handlers : web_next_video(h)
    \/ \E h \in Handlers : respond(h)
    \/ \E h \in Handlers : Sequence(h)

SpecWeb == InitWeb /\ [][NextWeb]_vars

\* ------------------------------------------------ a player that stops answering
\* the command thread t is about to hand to send_mpv_command
next_command(t) ==
    CASE pc[t] \in {"ptl159", "ptn210"} -> <<"loadfile", TRANSITION_VIDEO>>
      [] pc[t] \in {"ptl178", "ptn216"} -> <<"loadfile", video[t]>>
      [] OTHER -> <<"set_property", "time-pos", random_offset[t]>>

\* thread t is at a call of send_mpv_command
AtSend(t) ==
    \/ pc[t] \in {"ptl178", "ptn216", "ptl181", "ptn219"}
    \/ pc[t] \in {"ptl159", "ptn210"} /\ transition_present

\* lines 144-147: the player accepts the connection and the command and sends
\* nothing back; the socket has no timeout, so sock.recv(1024) never returns
send_mpv_command_147(t) ==
    /\ AtSend(t)
    /\ mpv_socket
    /\ \E acted \in BOOLEAN :
          mpv' = IF acted THEN Player(mpv, next_command(t), t) ELSE mpv
    /\ issued' = [issued EXCEPT ![t] = Append(@, next_command(t))]
    /\ Goto(t, "L147")
    /\ UNCHANGED <<shared, global_channel_queue, env, frame, countdown, history>>

\* One request handler in front of a player that answers, refuses, or hangs.
NextSilentPlayer ==
    \/ web_switch_channel("h1") \/ web_next_video("h1") \/ respond("h1")
    \/ Sequence("h1")
    \/ send_mpv_command_147("h1")

SpecSilentPlayer == InitWeb /\ [][NextSilentPlayer]_vars

\* The server of Spec started in a media directory with or without channel folders.
InitAnyCatalog ==
    /\ current_channel = None
    /\ auto_mode = None
    /\ auto_interval \in 1 .. MaxInterval
    /\ global_channel_queue = <<>>
    /\ transition_present = TRUE
    /\ mpv_socket = FALSE
    /\ catalog \in {channels, {}}
    /\ data = [t \in Threads |-> NoData]
    /\ ch_durations = <<>> /\ now = 0 /\ resolved = <<>> /\ earlier = <<>>
    /\ playing = None
    /\ Warm
    /\ mpv = [file |-> None, by |-> NoThread, pos |-> None]
    /\ pc = [t \in Threads |-> IF t = Sched THEN "L249" ELSE "idle"]
    /\ channel = [t \in Threads |-> None]
    /\ video = [t \in Threads |-> None]
    /\ random_offset = [t \in Threads |-> 0]
    /\ issued = [t \in Threads |-> <<>>]
    /\ countdown = 0
    /\ visited = {}
    /\ draws = 0
    /\ lastDraw = None
    /\ ticksOwed = 0

SpecAnyCatalog == InitAnyCatalog /\ [][Next]_vars

\* ------------------------------------------- the terminal front end (retro_23.py)
\* what the operator can type at the prompt: a channel name, "next", or anything else
TerminalInputs == channels \cup {"next", Unknown}

\* the terminal thread is back at input()
Prompt ==
    /\ pc' = [pc EXCEPT ![Terminal] = "prompt"]
    /\ channel' = [channel EXCEPT ![Terminal] = None]
    /\ video' = [video EXCEPT ![Terminal] = None]
    /\ random_offset' = [random_offset EXCEPT ![Terminal] = 0]
    /\ issued' = [issued EXCEPT ![Terminal] = <<>>]

\* retro_23.py:318-338: one line read from the terminal
terminal_input_thread ==
    /\ pc[Terminal] = "prompt"
    /\ \E cmd_input \in TerminalInputs :
         IF cmd_input = "next"
         THEN Goto(Terminal, "nv228") /\ UNCHANGED channel
         ELSE IF cmd_input \in catalog
         THEN /\ Goto(Terminal, "sc196")
              /\ channel' = [channel EXCEPT ![Terminal] = cmd_input]
         ELSE UNCHANGED <<pc, channel>>
    /\ UNCHANGED <<shared, global_channel_queue, env, mpv, video, random_offset, issued,
                   countdown, history>>

\* retro_23.py:196: current_channel = channel
sc_196 ==
    /\ pc[Terminal] = "sc196"
    /\ current_channel' = channel[Terminal]
    /\ Goto(Terminal, "sc197")
    /\ UNCHANGED <<auto_mode, auto_interval, global_channel_queue, env,
                   mpv, locals, countdown, history>>

\* retro_23.py:197-203: the bumper, when the file exists
sc_197 ==
    /\ pc[Terminal] = "sc197"
    /\ IF transition_present
       THEN Issue(<<"loadfile", TRANSITION_VIDEO>>, Terminal)
       ELSE UNCHANGED <<mpv, issued>>
    /\ Goto(Terminal, "sc204")
    /\ UNCHANGED <<shared, global_channel_queue, env, frame, countdown, history>>

\* retro_23.py:204-211: resolve the target, draw the random offset
sc_204 ==
    /\ pc[Terminal] = "sc204"
    /\ \E elapsed \in 0 .. MaxElapsed :
         LET r == compute_current_video_and_offset(channel[Terminal], elapsed)
         IN  IF r[1] = None
             THEN Prompt
             ELSE /\ \E duration \in get_video_duration(channel[Terminal], r[1]) :
                       \E offset \in random_offsets(duration) :
                          random_offset' = [random_offset EXCEPT ![Terminal] = offset]
                  /\ video' = [video EXCEPT ![Terminal] = r[1]]
                  /\ Goto(Terminal, "sc216")
                  /\ UNCHANGED <<channel, issued>>
    /\ UNCHANGED <<shared, global_channel_queue, env, mpv, countdown, history>>

\* retro_23.py:215-216: loadfile
sc_216 ==
    /\ pc[Terminal] = "sc216"
    /\ Issue(<<"loadfile", video[Terminal]>>, Terminal)
    /\ Goto(Terminal, "sc219")
    /\ UNCHANGED <<shared, global_channel_queue, env, frame, countdown, history>>

\* retro_23.py:217-219: the seek, after the settle pause
sc_219 ==
    /\ pc[Terminal] = "sc219"
    /\ send_mpv_command(<<"set_property", "time-pos", random_offset[Terminal]>>, Terminal)
    /\ Prompt
    /\ UNCHANGED <<shared, global_channel_queue, env, countdown, history>>

\* retro_23.py:228-230: nothing to do without a current channel
nv_228 ==
    /\ pc[Terminal] = "nv228"
    /\ IF current_channel = None THEN Prompt
       ELSE Goto(Terminal, "nv231") /\ UNCHANGED locals
    /\ UNCHANGED <<shared, global_channel_queue, env, mpv, countdown, history>>

\* retro_23.py:231-234: the playlist of the current channel
nv_231 ==
    /\ pc[Terminal] = "nv231"
    /\ IF get(channel_playlists, current_channel) = <<>>
       THEN Prompt
       ELSE /\ channel' = [channel EXCEPT ![Terminal] = current_channel]
            /\ Goto(Terminal, "nv235")
            /\ UNCHANGED <<video, random_offset, issued>>
    /\ UNCHANGED <<shared, global_channel_queue, env, mpv, countdown, history>>

\* retro_23.py:235-238: random.choice(playlist), its duration and random offset
nv_235 ==
    /\ pc[Terminal] = "nv235"
    /\ LET playlist == channel_playlists[channel[Terminal]]
       IN  \E i \in 1 .. Len(playlist) :
              /\ video' = [video EXCEPT ![Terminal] = playlist[i]]
              /\ \E duration \in get_video_duration(channel[Terminal], playlist[i]) :
                    \E offset \in random_offsets(duration) :
                       random_offset' = [random_offset EXCEPT ![Terminal] = offset]
    /\ \E elapsed \in 0 .. MaxElapsed :
          playing' = compute_current_video_and_offset(channel[Terminal], elapsed)[1]
    /\ Goto(Terminal, "nv243")
    /\ UNCHANGED <<shared, global_channel_queue, world, data, resolver, store, mpv, channel, issued,
                   countdown, history>>

\* retro_23.py:243-247: the bumper, when the file exists
nv_243 ==
    /\ pc[Terminal] = "nv243"
    /\ IF transition_present
       THEN Issue(<<"loadfile", TRANSITION_VIDEO>>, Terminal)
       ELSE UNCHANGED <<mpv, issued>>
    /\ Goto(Terminal, "nv249")
    /\ UNCHANGED <<shared, global_channel_queue, env, frame, countdown, history>>

\* retro_23.py:248-249: loadfile
nv_249 ==
    /\ pc[Terminal] = "nv249"
    /\ Issue(<<"loadfile", video[Terminal]>>, Terminal)
    /\ Goto(Terminal, "nv252")
    /\ UNCHANGED <<shared, global_channel_queue, env, frame, countdown, history>>

\* retro_23.py:250-252: the seek, after the settle pause
nv_252 ==
    /\ pc[Terminal] = "nv252"
    /\ send_mpv_command(<<"set_property", "time-pos", random_offset[Terminal]>>, Terminal)
    /\ Prompt
    /\ playing' = None
    /\ UNCHANGED <<shared, global_channel_queue, world, data, resolver, store, countdown, history>>

\* retro_23.py:147-173: mpv is started on the video the first channel is at
InitTerminal ==
    /\ current_channel = None
    /\ auto_mode = None
    /\ auto_interval = 120
    /\ global_channel_queue = <<>>
    /\ transition_present \in BOOLEAN
    /\ mpv_socket = TRUE
    /\ catalog = channels
    /\ data = [t \in Threads |-> NoData]
    /\ ch_durations = <<>> /\ now = 0 /\ resolved = <<>> /\ earlier = <<>>
    /\ playing = None
    /\ Warm
    /\ \E default_channel \in catalog : \E elapsed \in 0 .. MaxElapsed :
          LET r == compute_current_video_and_offset(default_channel, elapsed)
          IN  /\ r[1] # None
              /\ mpv = [file |-> r[1], by |-> NoThread, pos |-> r[2]]
    /\ pc = [t \in Threads |-> IF t = Sched THEN "L249"
                               ELSE IF t = Terminal THEN "prompt" ELSE "idle"]
    /\ channel = [t \in Threads |-> None]
    /\ video = [t \in Threads |-> None]
    /\ random_offset = [t \in Threads |-> 0]
    /\ issued = [t \in Threads |-> <<>>]
    /\ countdown = 0
    /\ visited = {}
    /\ draws = 0
    /\ lastDraw = None
    /\ ticksOwed = 0

NextTerminal ==
    \/ terminal_input_thread
    \/ sc_196 \/ sc_197 \/ sc_204 \/ sc_216 \/ sc_219
    \/ nv_228 \/ nv_231 \/ nv_235 \/ nv_243 \/ nv_249 \/ nv_252

SpecTerminal == InitTerminal /\ [][NextTerminal]_vars

\* ------------------------------------------------- the resolver on its own
\* the server at rest: the state after construction, interval at its default
Idle ==
    /\ current_channel = None
    /\ auto_mode = None
    /\ auto_interval = 120
    /\ global_channel_queue = <<>>
    /\ transition_present = TRUE
    /\ mpv_socket = FALSE
    /\ catalog = channels
    /\ data = [t \in Threads |-> NoData]
    /\ mpv = [file |-> None, by |-> NoThread, pos |-> None]
    /\ pc = [t \in Threads |-> IF t = Sched THEN "L249" ELSE "idle"]
    /\ channel = [t \in Threads |-> None]
    /\ video = [t \in Threads |-> None]
    /\ random_offset = [t \in Threads |-> 0]
    /\ issued = [t \in Threads |-> <<>>]
    /\ countdown = 0
    /\ visited = {}
    /\ draws = 0
    /\ lastDraw = None
    /\ ticksOwed = 0
    /\ playing = None

\* the duration lists a channel can have, and the instants it is resolved at;
\* the channel and the instants of the worked example are among them
DurationLists == UNION {[1 .. n -> 0 .. MaxDuration] : n \in 0 .. MaxLen} \cup {<<100, 50>>}
Instants == 0 .. MaxClock \cup {620, 730}

\* `playlist` of the channel: one file per duration, named by its place
ch_playlist == [i \in 1 .. Len(ch_durations) |-> ToString(i)]

InitResolve ==
    /\ Idle
    /\ Warm
    /\ ch_durations \in DurationLists
    /\ now \in Instants
    /\ resolved = <<>>
    /\ earlier = <<>>

\* a call of the resolver at the instant `now`
Resolve ==
    /\ resolved = <<>>
    /\ resolved' = compute(ch_playlist, ch_durations, now)
    /\ UNCHANGED <<ch_durations, now, earlier, engine, store>>

\* time passes between two calls
Later ==
    /\ resolved # <<>>
    /\ \E t \in Instants :
         /\ t > now
         /\ now' = t
    /\ earlier' = <<now, resolved>>
    /\ resolved' = <<>>
    /\ UNCHANGED <<ch_durations, engine, store>>

NextResolve == Resolve \/ Later

SpecResolve == InitResolve /\ [][NextResolve]_vars

\* ------------------------------------------------- start-up: the duration store
\* json.load of the snapshot: its content, or {} when the file is absent or
\* cannot be parsed
load_cache == IF cache_file.state = "complete" THEN cache_file.content ELSE <<>>

\* line 59: durations_cache = load_cache(); init_playlists then globs the folder
boot_59 ==
    /\ boot = "L59"
    /\ durations_cache' = load_cache
    /\ pending' = Files
    /\ files' \in shuffles(Files)
    /\ completed' = <<>>
    /\ folder_durations' = <<>>
    /\ boot' = "L99"
    /\ UNCHANGED <<engine, resolver, mod_time, cache_file, last_call, previous>>

\* lines 77-85 with the entry used whenever the key is present
cached_get_video_duration_any_age(video_path) ==
    /\ boot = "L99"
    /\ video_path \in pending
    /\ pending' = pending \ {video_path}
    /\ IF video_path \in DOMAIN durations_cache
       THEN /\ last_call' = [file |-> video_path, probed |-> FALSE, failed |-> FALSE,
                             result |-> durations_cache[video_path].duration]
            /\ UNCHANGED durations_cache
       ELSE \E ok \in BOOLEAN :
              LET duration == IF ok THEN ffprobe[video_path] ELSE 0
              IN  /\ durations_cache' =
                        [f \in DOMAIN durations_cache \cup {video_path} |->
                            IF f = video_path
                            THEN [mod_time |-> mod_time[video_path], duration |-> duration]
                            ELSE durations_cache[f]]
                  /\ last_call' = [file |-> video_path, probed |-> TRUE, failed |-> ~ok,
                                   result |-> duration]
    /\ completed' = Append(completed, <<video_path, last_call'.result>>)
    /\ UNCHANGED <<engine, resolver, mod_time, cache_file, boot, previous, files, folder_durations>>

\* lines 77-85: one call made by a worker of the pool of line 98; the probe
\* of get_video_duration (lines 61-75) succeeds, or fails and yields 0
cached_get_video_duration(video_path) ==
    /\ boot = "L99"
    /\ video_path \in pending
    /\ pending' = pending \ {video_path}
    /\ IF /\ video_path \in DOMAIN durations_cache
          /\ durations_cache[video_path].mod_time = mod_time[video_path]
       THEN /\ last_call' = [file |-> video_path, probed |-> FALSE, failed |-> FALSE,
                             result |-> durations_cache[video_path].duration]
            /\ UNCHANGED durations_cache
       ELSE \E ok \in BOOLEAN :
              LET duration == IF ok THEN ffprobe[video_path] ELSE 0
              IN  /\ durations_cache' =
                        [f \in DOMAIN durations_cache \cup {video_path} |->
                            IF f = video_path
                            THEN [mod_time |-> mod_time[video_path], duration |-> duration]
                            ELSE durations_cache[f]]
                  /\ last_call' = [file |-> video_path, probed |-> TRUE, failed |-> ~ok,
                                   result |-> duration]
    /\ completed' = Append(completed, <<video_path, last_call'.result>>)
    /\ UNCHANGED <<engine, resolver, mod_time, cache_file, boot, previous, files, folder_durations>>

\* the result a finished call left for file f
result_of(f, done) == done[CHOOSE k \in 1 .. Len(done) : done[k][1] = f][2]

\* results gathered in the order the calls completed (as_completed)
executor_map_as_completed(fs, done) == [k \in 1 .. Len(done) |-> done[k][2]]

\* line 98: list(executor.map(cached_get_video_duration, files)) yields the
\* result of the call made for files[i] at place i
executor_map(fs, done) == [i \in 1 .. Len(fs) |-> result_of(fs[i], done)]

\* lines 98-103: every call of the pool has returned; the list is stored in
\* channel_durations and save_cache(durations_cache) is called
boot_103 ==
    /\ boot = "L99"
    /\ pending = {}
    /\ folder_durations' = executor_map(files, completed)
    /\ boot' = "L53"
    /\ UNCHANGED <<engine, resolver, mod_time, durations_cache, cache_file, pending,
                   last_call, previous, files, completed>>

\* line 53: open(CACHE_FILE, "w") truncates the file in place; when the open
\* fails, the exception is printed and start-up goes on
save_cache_53 ==
    /\ boot = "L53"
    /\ \/ cache_file' = Snapshot("empty", <<>>) /\ boot' = "L54"
       \/ UNCHANGED cache_file /\ boot' = "serving"
    /\ UNCHANGED <<engine, resolver, mod_time, durations_cache, pending, last_call, previous, scan>>

\* line 54: json.dump writes the document piece by piece; any part of it may
\* have reached the disk
save_cache_54 ==
    /\ boot = "L54"
    /\ \E state \in {"empty", "truncated"} : cache_file' = Snapshot(state, <<>>)
    /\ boot' = "L55"
    /\ UNCHANGED <<engine, resolver, mod_time, durations_cache, pending, last_call, previous, scan>>

\* the end of the with block: the file is flushed and closed
save_cache_55 ==
    /\ boot = "L55"
    /\ cache_file' = Snapshot("complete", durations_cache)
    /\ boot' = "serving"
    /\ UNCHANGED <<engine, resolver, mod_time, durations_cache, pending, last_call, previous, scan>>

\* the process is killed, or the machine loses power
Crash ==
    /\ boot \in {"L59", "L99", "L53", "L54", "L55"}
    /\ boot' = "crashed"
    /\ UNCHANGED <<engine, resolver, mod_time, durations_cache, cache_file, pending, last_call, previous, scan>>

\* the program is started again
Restart ==
    /\ boot \in {"serving", "crashed"}
    /\ boot' = "L59"
    /\ durations_cache' = <<>>
    /\ pending' = {}
    /\ last_call' = NoCall
    /\ previous' = cache_file
    /\ files' = <<>>
    /\ completed' = <<>>
    /\ folder_durations' = <<>>
    /\ UNCHANGED <<engine, resolver, mod_time, cache_file>>

\* a media file is replaced or edited
Touch ==
    /\ \E f \in Files :
         /\ mod_time[f] < MaxMtime
         /\ mod_time' = [mod_time EXCEPT ![f] = mod_time[f] + 1]
    /\ UNCHANGED <<engine, resolver, durations_cache, cache_file, boot, pending, last_call, previous, scan>>

\* the first start in a media directory that has no snapshot yet
InitStore ==
    /\ Idle
    /\ ch_durations = <<>> /\ now = 0 /\ resolved = <<>> /\ earlier = <<>>
    /\ mod_time = [f \in Files |-> 1]
    /\ durations_cache = <<>>
    /\ cache_file = Snapshot("absent", <<>>)
    /\ previous = cache_file
    /\ boot = "L59"
    /\ pending = {}
    /\ last_call = NoCall
    /\ files = <<>>
    /\ completed = <<>>
    /\ folder_durations = <<>>

NextStore ==
    \/ boot_59
    \/ \E video_path \in Files : cached_get_video_duration(video_path)
    \/ boot_103
    \/ save_cache_53 \/ save_cache_54 \/ save_cache_55
    \/ Crash \/ Restart \/ Touch

SpecStore == InitStore /\ [][NextStore]_vars

\* ================================================================ properties
PtlPcs == {"ptl158", "ptl159", "ptl166", "ptl178", "ptl181"}
PtnPcs == {"ptn189", "ptn192", "ptn197", "ptn210", "ptn216", "ptn219"}

\* thread t takes a step
Steps(t) == pc'[t] # pc[t]

\* thread t has sent the first command of a sequence and not yet its seek
InFlight(t) ==
    \/ pc[t] \in {"ptl181", "ptn219"}
    \/ transition_present /\ pc[t] \in {"ptl166", "ptl178", "ptn216"}

\* C1: at most one playback sequence is in flight (between its first player
\* command and its final seek) at any time, over the request handlers and
\* the rotation thread.
C1_OneSequenceInFlight ==
    \A t, u \in Threads : InFlight(t) /\ InFlight(u) => t = u

\* the player holds the target that thread t loaded and t has yet to seek
AwaitsSeek(t) ==
    /\ pc[t] \in {"ptl181", "ptn219"}
    /\ mpv = [file |-> video[t], by |-> t, pos |-> None]

\* C2: no loadfile of another sequence reaches the player between a
\* sequence's target loadfile and that sequence's seek, so every seek lands
\* on the item its own sequence loaded.
C2_NoLoadBetweenLoadAndSeek ==
    [][\A t \in Threads : (AwaitsSeek(t) /\ ~Steps(t)) => mpv'.by = t]_vars

\* the channel is in the catalog and has no item to resolve
Empty(ch) ==
    /\ ch \in channels
    /\ \A elapsed \in 0 .. MaxElapsed : compute_current_video_and_offset(ch, elapsed)[1] = None

\* C3: switchToChannel on an empty channel aborts after the bumper step:
\* no step of it changes the live channel and it never reaches the target's
\* loadfile or seek.
C3_EmptyChannelLeavesLiveChannel ==
    [][\A t \in Threads :
          (pc[t] \in PtlPcs /\ Steps(t) /\ Empty(channel[t]))
          => (current_channel' = current_channel /\ pc'[t] \notin {"ptl178", "ptl181"})]_vars

\* C4: a channel name outside the catalog is rejected without any change,
\* so the live channel is always null or a channel of the catalog.
C4_LiveChannelInCatalog == current_channel \in channels \cup {None}

\* C5: within switchToChannel the live channel changes only after the
\* target's loadfile and seek have been sent: no earlier step of the
\* sequence changes it.
C5_LiveChannelSetAfterSeek ==
    [][\A t \in Threads :
          (pc[t] \in PtlPcs \ {"ptl181"} /\ Steps(t))
          => current_channel' = current_channel]_vars

\* the places of auto_mode_loop outside an activation
Waiting == {"L249", "L250", "L251", "L253", "L255", "L257", "L261", "L270"}

\* C6: once rotation is off during a countdown, and for as long as it stays
\* off, the rotation thread fires no activation: it stays outside the
\* activation code, draws nothing from the queue and does not change the
\* live channel.
C6_OffMeansNoActivation ==
    [][(auto_mode = None /\ auto_mode' = None /\ pc[Sched] \in Waiting)
       => /\ pc'[Sched] \in Waiting
          /\ global_channel_queue' = global_channel_queue
          /\ (Steps(Sched) => current_channel' = current_channel)]_vars

\* rotation was switched off in the middle of a countdown and the loop has
\* left the countdown without firing
C6_Witness == auto_mode = None /\ pc[Sched] = "L255" /\ countdown > 0

\* C7: after rotation was off and is enabled again, an activation fires only
\* once a full interval of ticks has passed since it was enabled.
C7_FullIntervalAfterEnable ==
    [][(pc[Sched] \in {"L257", "L261"} /\ pc'[Sched] \in {"L258", "L262"})
       => ticksOwed = 0]_vars

\* C8: counted from a refill, the draws visit pairwise different channels,
\* and N draws visit all N channels.
C8_EveryChannelOncePerFill ==
    /\ draws <= Cardinality(channels)
    /\ Cardinality(visited) = draws
    /\ (draws = Cardinality(channels) => visited = channels)

\* a whole fill of the queue has been drawn
C8_Witness == draws = Cardinality(channels) /\ global_channel_queue = <<>>

\* the rotation thread draws a channel in this step
DrawStep == pc[Sched] \in {"L258", "L263"} /\ pc'[Sched] = "ptl158"

\* C9 as claimed: no draw yields the channel of the draw before it, the
\* first draw after a refill included.
C9_NeverRepeats ==
    [][(DrawStep /\ lastDraw # None) => lastDraw' # lastDraw]_vars

\* C9: two consecutive draws from the same fill of the queue never yield the
\* same channel.
C9_NoRepeatWithinFill ==
    [][(DrawStep /\ lastDraw # None /\ global_channel_queue # <<>>)
       => lastDraw' # lastDraw]_vars

\* the second draw of a fill has just been made
C9_Witness == draws = 2 /\ pc[Sched] = "ptl158"

Returns(t) == pc'[t] = (IF t = Sched THEN "L249" ELSE "ret200")

C12_LoopNeverStops == ENABLED auto_mode_loop

\* handler h answers with an error and the session state is as before
Rejected(h) == pc'[h] = "ret400" /\ UNCHANGED <<shared, global_channel_queue>>

\* an interval that is not an integer: a number with a fractional part, a
\* string that is no decimal literal, or null
NonInteger(x) ==
    \/ x[1] = "float" /\ x[2] % 10 # 0
    \/ x[1] = "str" /\ ~py_int(x)[1]
    \/ x[1] = "null"

NonPositive(x) == x[1] \in {"int", "float"} /\ x[2] <= 0

\* C13: set_auto_interval with a non-positive or non-integer value and
\* set_auto_mode with a value other than off/global/local answer with an
\* error and leave the session state unchanged; the interval is always a
\* positive integer and the mode one of off (None), global, local.
C13_InvalidInputRejected ==
    /\ [](auto_interval \in Nat \ {0} /\ auto_mode \in {None, "global", "local"})
    /\ [][\A h \in Handlers :
            (pc[h] = "idle" /\ Steps(h)) =>
               /\ (data'[h][1] = "mode" /\ data'[h][2] \notin {"off", "global", "local"})
                     => Rejected(h)
               /\ (data'[h][1] \in {"int", "float", "str", "null"}
                   /\ (NonPositive(data'[h]) \/ NonInteger(data'[h])))
                     => Rejected(h)]_vars

\* --------------------------------------------------------------- resolver
\* where item i starts in the cycle of the channel
cumulativeStart(i) == sum(SubSeq(ch_durations, 1, i - 1))

\* position p of the cycle lies in the span of item i
InSpan(i, p) == cumulativeStart(i) <= p /\ p < cumulativeStart(i) + ch_durations[i]

\* C14: for a channel of total duration T > 0 the resolver returns the one
\* item whose span holds elapsed mod T, at the offset into that span; the
\* durations 100, 50 give item 1 at 20 for 620 and item 2 at 30 for 730.
C14_ResolveFindsTheSpan ==
    (resolved # <<>> /\ sum(ch_durations) > 0) =>
        LET p == now % sum(ch_durations)
        IN  /\ \E i \in 1 .. Len(ch_durations) :
                 /\ resolved = <<ch_playlist[i], p - cumulativeStart(i)>>
                 /\ InSpan(i, p)
                 /\ resolved[2] >= 0 /\ resolved[2] < ch_durations[i]
                 /\ \A j \in 1 .. Len(ch_durations) : InSpan(j, p) => j = i
            /\ (ch_durations = <<100, 50>> /\ now = 620) => resolved = <<"1", 20>>
            /\ (ch_durations = <<100, 50>> /\ now = 730) => resolved = <<"2", 30>>

\* the worked example resolved in the second item
C14_Witness == ch_durations = <<100, 50>> /\ now = 730 /\ resolved = <<"2", 30>>

\* C15: a channel of total duration 0 resolves to its first item at offset
\* 0 at every instant, a channel without items to no item.
C15_ZeroAndEmptyChannel ==
    resolved # <<>> =>
        /\ ch_durations = <<>> => resolved = <<None, None>>
        /\ (ch_durations # <<>> /\ sum(ch_durations) = 0) => resolved = <<ch_playlist[1], 0>>

\* several items of duration 0 resolved at an instant after midnight
C15_Witness ==
    /\ Len(ch_durations) > 1 /\ sum(ch_durations) = 0
    /\ now > 0 /\ resolved = <<"1", 0>>

\* the position in the cycle a result stands for
Position(r) ==
    cumulativeStart(CHOOSE i \in 1 .. Len(ch_durations) : ch_playlist[i] = r[1]) + r[2]

\* two calls in the same cycle of a channel of positive total duration
SameCycle ==
    /\ earlier # <<>> /\ resolved # <<>>
    /\ sum(ch_durations) > 0
    /\ earlier[1] \div sum(ch_durations) = now \div sum(ch_durations)

\* C16: two calls at t1 < t2 in the same cycle resolve to positions that
\* differ by exactly t2 - t1.
C16_Continuity ==
    SameCycle => Position(resolved) = Position(earlier[2]) + (now - earlier[1])

\* the second call of a cycle lands in a later item than the first
C16_Witness == SameCycle /\ earlier[2][1] # resolved[1]

\* C17: next_video on a live channel of more than one item never loads the
\* item the resolver reports as playing for that channel at the moment of
\* the choice; on a channel of one item it loads that item.
C17_NextVideoAvoidsCurrent ==
    (/\ pc[Terminal] = "nv252"
     /\ mpv = [file |-> video[Terminal], by |-> Terminal, pos |-> None])
    => LET playlist == get(channel_playlists, channel[Terminal])
       IN  /\ Len(playlist) > 1 => mpv.file # playing
           /\ Len(playlist) = 1 => mpv.file = playlist[1]

\* ----------------------------------------------------------- duration store
\* this step is a call of cached_get_video_duration on f
Calls(f) == boot = "L99" /\ f \in pending /\ f \notin pending'

\* the store holds a duration 0 for f under the file's current mod_time
\* (every file of the folder has a positive duration, so 0 is a failed probe)
HoldsFailure(f) ==
    /\ f \in DOMAIN durations_cache
    /\ durations_cache[f].duration = 0
    /\ durations_cache[f].mod_time = mod_time[f]

\* C18: a failed probe makes the call return 0, and the failure is not kept:
\* a later call for the same file with an unchanged mod_time probes again.
C18_FailureNotCached ==
    [][\A f \in Files : Calls(f) =>
          /\ last_call'.failed => last_call'.result = 0
          /\ HoldsFailure(f) => last_call'.probed]_vars

\* the entry for f can be used as it is
Valid(f) ==
    /\ f \in DOMAIN durations_cache
    /\ durations_cache[f].mod_time = mod_time[f]

\* C19: a call returns the stored duration without probing exactly when the
\* store has an entry for the file under its current mod_time; otherwise it
\* probes and replaces the entry by the current mod_time and the probed duration.
C19_EntryValidIffSameMtime ==
    [][\A f \in Files : Calls(f) =>
          /\ last_call'.file = f
          /\ last_call'.probed = ~Valid(f)
          /\ Valid(f) => /\ last_call'.result = durations_cache[f].duration
                         /\ UNCHANGED durations_cache
          /\ ~Valid(f) => /\ f \in DOMAIN durations_cache'
                          /\ durations_cache'[f] = [mod_time |-> mod_time[f],
                                                    duration |-> last_call'.result]]_vars

\* a call answered from an entry loaded from the snapshot of an earlier run,
\* while the other file was modified since
C19_Witness ==
    /\ last_call.file = "a" /\ ~last_call.probed /\ last_call.result = ffprobe["a"]
    /\ mod_time["b"] > 1

\* C20: whenever the process dies, the snapshot on disk is the complete one
\* the run began with or the complete new one, never an empty or cut file.
C20_SnapshotNeverTorn ==
    boot = "crashed" =>
        cache_file \in {previous, Snapshot("complete", durations_cache)}

\* the catalog of the folder is built: start-up has passed line 99
Built == boot \in {"L53", "L54", "L55", "serving"}

\* C21: once the catalog is built, the duration list is parallel to the
\* shuffled playlist: same length, and its i-th entry is the duration the
\* call for the i-th file returned, in whatever order the calls completed.
C21_DurationsParallelToItems ==
    Built =>
        /\ Len(folder_durations) = Len(files)
        /\ \A i \in 1 .. Len(files) :
              \E k \in 1 .. Len(completed) : completed[k] = <<files[i], folder_durations[i]>>

\* the calls completed in the reverse of the playlist order, with different results
C21_Witness ==
    /\ Built
    /\ Len(completed) = 2 /\ completed[1][1] = files[2] /\ completed[2][1] = files[1]
    /\ folder_durations[1] # folder_durations[2]

\* thread t is inside a playback sequence
InSequence(t) == pc[t] \in PtlPcs \cup PtnPcs \cup {"L147"}

\* C22: a player command that fails is dropped without retry and without
\* aborting: a step hands at most one command to send_mpv_command, a thread
\* inside a sequence can always take its next step, and a channel switch
\* that returns leaves the requested channel as the live one.
C22_FailedCommandDropped ==
    /\ [](\A t \in Threads : InSequence(t) => ENABLED Sequence(t))
    /\ [][\A t \in Threads :
            /\ Len(issued'[t]) <= Len(issued[t]) + 1
            /\ (pc[t] \in PtlPcs \ {"ptl158"} /\ Returns(t)) => current_channel' = channel[t]]_vars

\* what a sequence has issued once it is past the bumper
Bumper ==
    IF transition_present THEN << <<"loadfile", TRANSITION_VIDEO>> >> ELSE << >>

\* thread t is about to send the seek that ends its sequence
AtSeek(t) == pc[t] \in {"ptl181", "ptn219"}

\* every command of thread t's sequence, in order
WholeSequence(t) ==
    Bumper \o << <<"loadfile", video[t]>>,
                 <<"set_property", "time-pos", random_offset[t]>> >>

\* player states compared as text: a position is None or a number
SamePlayer(m, n) == ToString(m) = ToString(n)

\* C24: a playback sequence issues a bumper loadfile first exactly when the
\* bumper file is present, then the loadfile of the target, then the seek as
\* its last command; the seek is only ever sent after the target's loadfile of
\* the same sequence, and a sequence that returns early has issued at most
\* the bumper loadfile.
C24_CommandOrder ==
    /\ [](\A t \in Threads :
            /\ pc[t] \in {"ptl158", "ptl159", "ptn189", "ptn192", "ptn197", "ptn210"}
                 => issued[t] = << >>
            /\ pc[t] \in {"ptl166", "ptl178", "ptn216"} => issued[t] = Bumper
            /\ AtSeek(t) => issued[t] = Bumper \o << <<"loadfile", video[t]>> >>
            /\ pc[t] = "L147" =>
                 \E k \in 1 .. Len(WholeSequence(t)) :
                    issued[t] = SubSeq(WholeSequence(t), 1, k))
    /\ [][\A t \in Threads :
            /\ (AtSeek(t) /\ Steps(t)) =>
                 /\ pc'[t] \notin PtlPcs \cup PtnPcs
                 /\ \/ SamePlayer(mpv', mpv)
                    \/ SamePlayer(mpv', Player(mpv, <<"set_property", "time-pos", random_offset[t]>>, t))
            /\ (pc[t] \in (PtlPcs \cup PtnPcs) /\ ~AtSeek(t) /\ Returns(t)) =>
                 /\ issued[t] \in {<< >>, Bumper}
                 /\ SamePlayer(mpv', mpv)
            /\ (Steps(t) /\ ~AtSeek(t)) =>
                 \/ SamePlayer(mpv', mpv)
                 \/ ToString(mpv'.pos) = ToString(None)]_vars

\* a sequence with the bumper present has issued both loadfiles and is at its seek
C24_Witness ==
    \E h \in Handlers :
        /\ AtSeek(h)
        /\ issued[h] = << <<"loadfile", TRANSITION_VIDEO>>, <<"loadfile", video[h]>> >>
        /\ mpv.file = video[h]

\* C23: a countdown that has run down with the rotation mode on (the test of
\* line 255 passed) ends in a playback sequence before the next countdown
\* starts: the rotation thread does not go from its mode tests back to the
\* top of the loop while the mode is "global" or "local", also when a
\* front end changes the mode between the two.
C23_ActivationFiresOnce ==
    [][(/\ pc[Sched] \in {"L257", "L261", "L262"}
        /\ countdown = 0
        /\ auto_mode \in {"global", "local"})
       => pc'[Sched] # "L249"]_vars

\* the rotation thread is at one of its two calls of get_next_random_channel
AtDraw == pc[Sched] \in {"L258", "L263"}

\* C25: the rotation queue is always a duplicate-free sequence of catalog
\* channel names; it changes only in a step of the rotation thread that draws
\* from it, which removes the head of the queue or of a fresh shuffle of all
\* channel names when it was empty; no step of a request handler changes it.
C25_QueueOnlyDrawnFrom ==
    /\ [](/\ \A i \in 1 .. Len(global_channel_queue) : global_channel_queue[i] \in catalog
          /\ \A i, j \in 1 .. Len(global_channel_queue) :
                global_channel_queue[i] = global_channel_queue[j] => i = j)
    /\ [][/\ global_channel_queue' # global_channel_queue =>
               /\ AtDraw
               /\ pc'[Sched] = "ptl158"
               /\ IF global_channel_queue = << >>
                  THEN \E shuffled \in shuffles(catalog) :
                          /\ global_channel_queue' = Tail(shuffled)
                          /\ channel'[Sched] = Head(shuffled)
                  ELSE /\ global_channel_queue' = Tail(global_channel_queue)
                       /\ channel'[Sched] = Head(global_channel_queue)
          /\ \A h \in Handlers :
               Steps(h) => global_channel_queue' = global_channel_queue]_vars

\* a handler has made a channel the live one by request and that channel is
\* still waiting in the rotation queue
C25_Witness ==
    \E h \in Handlers :
        /\ pc[h] \in PtlPcs \ {"ptl158"}
        /\ channel[h] = current_channel
        /\ \E i \in 1 .. Len(global_channel_queue) :
              global_channel_queue[i] = current_channel
====
